---------------------------- MODULE Spec2Model ----------------------------
(***************************************************************************)
(* Model of app.py: a Streamlit script that thresholds a grayscale image   *)
(* (Otsu), cleans the mask (remove_small_objects / remove_small_holes),    *)
(* labels it (measure.label), tabulates regionprops and renders the table  *)
(* and a CSV export.  compute_pipeline is wrapped in st.cache_data.        *)
(*                                                                         *)
(* Streamlit executes the whole script, top to bottom, once per user       *)
(* interaction, in a fresh __main__ namespace; only the st.cache_data      *)
(* store and the widget values survive from one run to the next.           *)
(*                                                                         *)
(* An image is a function from the pixels <<row, col>> of a small grid to  *)
(* intensities (dark 0 or bright MaxLevel); a mask is the set of its True  *)
(* pixels.  Floats are exact                                               *)
(* fractions [n, d] in lowest terms.  Slider values are pixel counts on    *)
(* the scale of the small grids.  The overlay image                        *)
(* (label2rgb) is a function of img and label_img only and is not carried  *)
(* in the model.                                                           *)
(***************************************************************************)
EXTENDS Integers, Sequences, FiniteSets, TLC

\* ------------------------------------------------------------------ bounds
\* images have at most MaxPixels pixels
MaxPixels == 4
\* intensity of the bright pixels (the dark ones are 0)
MaxLevel == 1
\* largest slider value (1000 in the program, in pixels of its 303 x 384 image)
MaxSize == 3
\* initial slider value (50 in the program)
DefaultSize == 2
\* script runs explored per session
MaxRuns == 3

\* ---------------------------------------------------------------- geometry
Grid(h, w) == (0 .. h - 1) \X (0 .. w - 1)

\* the shapes (rows, columns) of the non-empty grids of at most MaxPixels pixels
Shapes == {s \in (1 .. MaxPixels) \X (1 .. MaxPixels) : s[1] * s[2] <= MaxPixels}

\* the two-level grayscale images of these shapes
Images == UNION {[Grid(s[1], s[2]) -> {0, MaxLevel}] : s \in Shapes}

Sizes == 0 .. MaxSize

\* position of a pixel in the row-major scan order
Raster(p) == p[1] * MaxPixels + p[2]

Abs(x) == IF x < 0 THEN -x ELSE x

Min(S) == CHOOSE x \in S : \A y \in S : x <= y

Max(S) == CHOOSE x \in S : \A y \in S : y <= x

\* ---------------------------------------------------------------- fractions
RECURSIVE GCD(_, _)
GCD(a, b) == IF b = 0 THEN a ELSE GCD(b, a % b)

Frac(n, d) == LET g == GCD(Abs(n), d) IN [n |-> n \div g, d |-> d \div g]

\* float(x) of an integer
Float(x) == Frac(x, 1)

\* numpy round(2): rint(x * 100) / 100, rint rounding half to even
Round2(f) ==
    LET num == 100 * f.n
        q == num \div f.d
        r == num % f.d
        k == IF 2 * r < f.d THEN q
             ELSE IF 2 * r > f.d THEN q + 1
             ELSE IF q % 2 = 0 THEN q ELSE q + 1
    IN Frac(k, 100)

\* ------------------------------------------------------ connected components
\* skimage connectivity: q is a neighbour of p when it is at most one step
\* away on each axis and at most `connectivity` orthogonal hops away
Neighbours(p, q, connectivity) ==
    LET dr == Abs(p[1] - q[1])
        dc == Abs(p[2] - q[2])
    IN /\ dr <= 1
       /\ dc <= 1
       /\ dr + dc >= 1
       /\ dr + dc <= connectivity

RECURSIVE Grow(_, _, _)
Grow(S, F, connectivity) ==
    LET N == {q \in S \ F : \E p \in F : Neighbours(p, q, connectivity)}
    IN IF N = {} THEN F ELSE Grow(S, F \cup N, connectivity)

ComponentOf(S, p, connectivity) == Grow(S, {p}, connectivity)

Components(S, connectivity) == {ComponentOf(S, p, connectivity) : p \in S}

First(C) == Min({Raster(p) : p \in C})

\* ndi.label / measure.label: components numbered 1, 2, ... in the order a
\* raster scan meets their first pixel; 0 is background
LabelWith(Pos, S, connectivity) ==
    LET CC == Components(S, connectivity)
    IN [p \in Pos |->
          IF p \in S
          THEN LET C == CHOOSE D \in CC : p \in D
               IN 1 + Cardinality({D \in CC : First(D) < First(C)})
          ELSE 0]

\* ------------------------------------------------------------ skimage calls
RECURSIVE SumOver(_, _)
SumOver(f, S) ==
    IF S = {} THEN 0
    ELSE LET p == CHOOSE q \in S : TRUE IN f[p] + SumOver(f, S \ {p})

\* filters.threshold_otsu on an integer image: one bin per integer between
\* the smallest and the largest intensity; the threshold is the first bin
\* maximising weight1 * weight2 * (mean1 - mean2)^2, the last bin excluded.
\* A single-valued image returns that value.
threshold_otsu(image) ==
    LET Pos == DOMAIN image
        first_pixel == image[<<0, 0>>]
        lo == Min({image[p] : p \in Pos})
        hi == Max({image[p] : p \in Pos})
        Below(t) == {p \in Pos : image[p] <= t}
        Above(t) == {p \in Pos : image[p] > t}
        \* variance12 = VarNum / VarDen for the split after bin t
        VarNum(t) == LET x == SumOver(image, Below(t)) * Cardinality(Above(t))
                                - SumOver(image, Above(t)) * Cardinality(Below(t))
                     IN x * x
        VarDen(t) == Cardinality(Below(t)) * Cardinality(Above(t))
        Leq(s, t) == VarNum(s) * VarDen(t) <= VarNum(t) * VarDen(s)
        Best == {t \in lo .. hi - 1 : \A s \in lo .. hi - 1 : Leq(s, t)}
    IN IF \A p \in Pos : image[p] = first_pixel
       THEN first_pixel
       ELSE Min(Best)

\* variant: the size test inverted, so the small components are the ones kept
remove_small_objects_inverted(ar, min_size) ==
    IF min_size = 0 THEN ar
    ELSE LET ccs == Components(ar, 1)
             too_small(C) == Cardinality(C) < min_size
         IN UNION {C \in ccs : too_small(C)}

\* morphology.remove_small_objects(ar, min_size), bool input, connectivity 1:
\* ndi.label with the 4-neighbour structure, bincount of the labels, and
\* every component with component_sizes < min_size cleared
remove_small_objects(ar, min_size) ==
    IF min_size = 0 THEN ar
    ELSE LET ccs == Components(ar, 1)
             too_small(C) == Cardinality(C) < min_size
         IN UNION {C \in ccs : ~ too_small(C)}

\* variant: holes of exactly area_threshold pixels are filled as well
remove_small_holes_inclusive(Pos, ar, area_threshold) ==
    LET out == Pos \ ar
    IN Pos \ remove_small_objects(out, area_threshold + 1)

\* morphology.remove_small_holes(ar, area_threshold), connectivity 1:
\* remove_small_objects applied to the negated mask, negated back
remove_small_holes(Pos, ar, area_threshold) ==
    LET out == Pos \ ar
    IN Pos \ remove_small_objects(out, area_threshold)

\* variant: labelling with connectivity=1 (4 neighbours)
measure_label_conn1(Pos, mask) == LabelWith(Pos, mask, 1)

\* measure.label(mask) with connectivity=None: full connectivity, i.e.
\* input.ndim = 2 orthogonal hops (8 neighbours)
measure_label(Pos, mask) == LabelWith(Pos, mask, 2)

\* k-th smallest intensity (1-based) among the pixels of S
Kth(image, S, k) ==
    Min({v \in 0 .. MaxLevel : Cardinality({p \in S : image[p] <= v}) >= k})

\* np.median
Median(image, S) ==
    LET n == Cardinality(S)
    IN IF n % 2 = 1
       THEN Float(Kth(image, S, (n + 1) \div 2))
       ELSE Frac(Kth(image, S, n \div 2) + Kth(image, S, n \div 2 + 1), 2)

\* float("nan")
NaN == [n |-> 0, d |-> 0]

ColumnNames ==
    << "label", "area", "bbox_r0", "bbox_c0", "bbox_r1", "bbox_c1",
       "mean", "median", "min", "max" >>

\* variant: the area taken as the size of the bounding box
RegionRow_bbox_area(label_img, image, l) ==
    LET Pos == DOMAIN label_img
        px == {p \in Pos : label_img[p] = l}
        r0 == Min({p[1] : p \in px})
        c0 == Min({p[2] : p \in px})
        r1 == Max({p[1] : p \in px}) + 1
        c1 == Max({p[2] : p \in px}) + 1
        box == {p \in Pos : r0 <= p[1] /\ p[1] < r1 /\ c0 <= p[2] /\ p[2] < c1}
        r_image == {p \in box : label_img[p] = l}
        area == Cardinality(box)
    IN [label |-> l,
        area |-> area,
        bbox_r0 |-> r0, bbox_c0 |-> c0, bbox_r1 |-> r1, bbox_c1 |-> c1,
        mean |-> Frac(SumOver(image, r_image), area),
        median |-> IF area > 0 THEN Median(image, r_image) ELSE NaN,
        min |-> Float(Min({image[p] : p \in r_image})),
        max |-> Float(Max({image[p] : p \in r_image}))]

\* one RegionProperties object of measure.regionprops turned into a row of
\* the table (lines 60-74): the bounding box comes from ndi.find_objects,
\* r.image is the label's pixels inside the box
RegionRow(label_img, image, l) ==
    LET Pos == DOMAIN label_img
        px == {p \in Pos : label_img[p] = l}
        r0 == Min({p[1] : p \in px})
        c0 == Min({p[2] : p \in px})
        r1 == Max({p[1] : p \in px}) + 1
        c1 == Max({p[2] : p \in px}) + 1
        box == {p \in Pos : r0 <= p[1] /\ p[1] < r1 /\ c0 <= p[2] /\ p[2] < c1}
        r_image == {p \in box : label_img[p] = l}
        area == Cardinality(r_image)
    IN [label |-> l,
        area |-> area,
        bbox_r0 |-> r0, bbox_c0 |-> c0, bbox_r1 |-> r1, bbox_c1 |-> c1,
        mean |-> Frac(SumOver(image, r_image), area),
        median |-> IF area > 0 THEN Median(image, r_image) ELSE NaN,
        min |-> Float(Min({image[p] : p \in r_image})),
        max |-> Float(Max({image[p] : p \in r_image}))]

\* measure.regionprops: one region per label that occurs, in label order
regionprops(label_img, image) ==
    LET present == {label_img[p] : p \in DOMAIN label_img} \ {0}
        nth(i) == CHOOSE l \in present : Cardinality({m \in present : m < l}) = i - 1
    IN [i \in 1 .. Cardinality(present) |-> RegionRow(label_img, image, nth(i))]

Range(s) == {s[i] : i \in 1 .. Len(s)}

\* pd.DataFrame(rows): the columns are the keys of the row dicts, so a table
\* built from no rows has no columns
Columns(df) == IF df = << >> THEN << >> ELSE ColumnNames

\* df.sort_values("label").reset_index(drop=True)
sort_values(rows) ==
    [i \in 1 .. Len(rows) |->
        CHOOSE r \in Range(rows) :
            Cardinality({s \in Range(rows) : s.label < r.label}) = i - 1]

\* --------------------------------------------------------- compute_pipeline
\* variant: the threshold passed on is one too small
RemoveObjectsStep_off_by_one(mask, min_obj) ==
    IF min_obj > 0 THEN remove_small_objects(mask, min_obj - 1) ELSE mask

\* line 51: small-object removal, skipped when min_obj is 0
RemoveObjectsStep(mask, min_obj) ==
    IF min_obj > 0 THEN remove_small_objects(mask, min_obj) ELSE mask

\* variant: a zero min_hole falls back to a default threshold instead of
\* skipping the step
FillHolesStep_default_on_zero(Pos, mask_clean, min_hole) ==
    remove_small_holes(Pos, mask_clean, IF min_hole > 0 THEN min_hole ELSE MaxSize)

\* line 52: small-hole filling, skipped when min_hole is 0
FillHolesStep(Pos, mask_clean, min_hole) ==
    IF min_hole > 0 THEN remove_small_holes(Pos, mask_clean, min_hole)
    ELSE mask_clean

\* line 48: mask = img > threshold
BinaryMask(image) ==
    LET threshold == threshold_otsu(image)
    IN {p \in DOMAIN image : image[p] > threshold}

\* lines 47-52: mask_clean for an image and the two parameters
MaskClean(image, a, b) ==
    FillHolesStep(DOMAIN image, RemoveObjectsStep(BinaryMask(image), a), b)

\* The local variables of one execution of the body of compute_pipeline
\* (lines 46-88) when it ends.  raised is "KeyError" when line 75 fails:
\* a DataFrame built from an empty list has no "label" column to sort by.
\* mask_l51 is mask_clean after line 51, mask_clean its value after line 52.
Body(image, a, b) ==
    LET Pos == DOMAIN image
        threshold == threshold_otsu(image)
        mask == {p \in Pos : image[p] > threshold}
        mask_l51 == RemoveObjectsStep(mask, a)
        mask_clean == FillHolesStep(Pos, mask_l51, b)
        label_img == measure_label(Pos, mask_clean)
        rows == regionprops(label_img, image)
        has_label == \E i \in 1 .. Len(Columns(rows)) : Columns(rows)[i] = "label"
    IN [called |-> TRUE,
        min_obj |-> a,
        min_hole |-> b,
        threshold |-> threshold,
        mask |-> mask,
        mask_l51 |-> mask_l51,
        mask_clean |-> mask_clean,
        label_img |-> label_img,
        rows |-> rows,
        df |-> IF has_label THEN sort_values(rows) ELSE << >>,
        raised |-> IF has_label THEN "none" ELSE "KeyError"]

\* the frame before any execution of the body
NoLocals ==
    [called |-> FALSE, min_obj |-> 0, min_hole |-> 0, threshold |-> 0,
     mask |-> {}, mask_l51 |-> {}, mask_clean |-> {},
     label_img |-> << >>, rows |-> << >>, df |-> << >>,
     raised |-> "none"]

\* lines 81-88: the returned dict (the overlay left out)
Returned(L) ==
    [threshold |-> Float(L.threshold),
     mask |-> L.mask,
     mask_clean |-> L.mask_clean,
     label_img |-> L.label_img,
     df |-> L.df]

\* `out` while the name is not bound (no run yet, or the run was aborted)
Unbound ==
    [threshold |-> NaN, mask |-> {}, mask_clean |-> {},
     label_img |-> << >>, df |-> << >>]

\* what a call of the undecorated function returns
Fresh(image, a, b) == Returned(Body(image, a, b))

\* ------------------------------------------------------------ presentation
\* an integer / a float written by to_csv
IntCell(x) == [kind |-> "int", n |-> x, d |-> 1]

FloatCell(f) == [kind |-> "float", n |-> f.n, d |-> f.d]

\* line 122: df.to_csv(index=False): a header line and one line per row
to_csv(df) ==
    [header |-> Columns(df),
     lines |-> [i \in 1 .. Len(df) |->
                  << IntCell(df[i].label), IntCell(df[i].area),
                     IntCell(df[i].bbox_r0), IntCell(df[i].bbox_c0),
                     IntCell(df[i].bbox_r1), IntCell(df[i].bbox_c1),
                     FloatCell(df[i].mean), FloatCell(df[i].median),
                     FloatCell(df[i].min), FloatCell(df[i].max) >>]]

\* variant: no copy is made, the new name refers to the same table object
DfCopy_alias(heap, ref) == [heap |-> heap, ref |-> ref]

\* Table objects live in a store, names hold references.  line 116:
\* DataFrame.copy() makes a new object with the same content.
DfCopy(heap, ref) == [heap |-> heap @@ ("copy" :> heap[ref]), ref |-> "copy"]

\* lines 117-119: round the four statistic columns of the object at ref
RoundColumns(heap, ref) ==
    [heap EXCEPT ![ref] =
        [i \in 1 .. Len(heap[ref]) |->
            [heap[ref][i] EXCEPT !.mean = Round2(@), !.median = Round2(@),
                                 !.min = Round2(@), !.max = Round2(@)]]]

\* lines 96-123 for the value `ret` held by out: the table out["df"] as the
\* section leaves it, the table shown, the CSV offered and the region count
Render(ret) ==
    LET heap0 == ("df" :> ret.df)
        cp == DfCopy(heap0, "df")
        heap1 == RoundColumns(cp.heap, cp.ref)
    IN [shown |-> TRUE,
        df |-> heap1["df"],
        df_display |-> heap1[cp.ref],
        csv |-> to_csv(heap1["df"]),
        regions |-> Max({ret.label_img[p] : p \in DOMAIN ret.label_img})]

NoCsv == [header |-> << >>, lines |-> << >>]

\* ------------------------------------------------------------- st.cache_data
\* variant: the key ignores min_hole
CacheKey_without_min_hole(image, a, b) == << image, a, 0 >>

\* the key st.cache_data derives from the arguments of the call
CacheKey(image, a, b) == << image, a, b >>

Lookup(store, key) == {e \in store : e.key = key}

\* the names bound in the run's __main__ namespace when line 34 executes:
\* every run starts from an empty namespace and `def compute_pipeline` is
\* line 45
NamesAtClear ==
    {"time", "np", "pd", "st", "data", "filters", "morphology", "measure",
     "color", "min_obj", "min_hole"}

\* lines 32-37: the handler of the cache-clear button
ClearHandler(store) ==
    IF "compute_pipeline" \in NamesAtClear
    THEN [store |-> {}, notice |-> "success"]
    ELSE [store |-> store, notice |-> "info"]

\* ------------------------------------------------------------------- state
VARIABLES
    img,          \* the sample image (line 40)
    min_obj,      \* value of the first slider
    min_hole,     \* value of the second slider
    cache,        \* st.cache_data store of compute_pipeline: {[key, value]}
    locals,       \* frame of the last execution of compute_pipeline's body
    out,          \* `out` of the last run (line 93)
    exc,          \* uncaught exception of the last run
    hit,          \* how line 93 was served in the last run
    clicked,      \* whether the last run was started by the clear button
    notice,       \* sidebar message of the last run
    view,         \* what section 7-8 of the last run showed, and out["df"] after it
    runs          \* script runs so far

vars == << img, min_obj, min_hole, cache, locals, out, exc, hit, clicked,
           notice, view, runs >>

NoView ==
    [shown |-> FALSE, df |-> << >>, df_display |-> << >>, csv |-> NoCsv,
     regions |-> 0]

Init ==
    /\ img \in Images
    /\ min_obj = DefaultSize
    /\ min_hole = DefaultSize
    /\ cache = {}
    /\ locals = NoLocals
    /\ out = Unbound
    /\ exc = "none"
    /\ hit = "none"
    /\ clicked = FALSE
    /\ notice = "none"
    /\ view = NoView
    /\ runs = 0

\* One execution of the script, top to bottom, with slider values a and b;
\* button is the value st.sidebar.button returns in this run.  The call of
\* line 93 is answered from the store when the key is there; otherwise the
\* body runs, and its result is stored unless it raised.  An exception ends
\* the run: out stays unbound and section 7-8 shows nothing.
ScriptRun(a, b, button) ==
    LET key == CacheKey(img, a, b) IN
    /\ runs < MaxRuns
    /\ runs' = runs + 1
    /\ min_obj' = a
    /\ min_hole' = b
    /\ clicked' = button
    /\ UNCHANGED img
    /\ notice' = IF button THEN ClearHandler(cache).notice ELSE "none"
    /\ hit' = IF Lookup(IF button THEN ClearHandler(cache).store ELSE cache, key) # {}
              THEN "hit" ELSE "miss"
    /\ locals' = IF hit' = "hit" THEN locals ELSE Body(img, a, b)
    /\ exc' = IF hit' = "hit" THEN "none" ELSE locals'.raised
    /\ cache' = LET store == IF button THEN ClearHandler(cache).store ELSE cache
                IN IF hit' = "miss" /\ exc' = "none"
                   THEN store \cup {[key |-> key, value |-> Returned(locals')]}
                   ELSE store
    /\ view' = IF exc' = "none"
               THEN Render((CHOOSE e \in Lookup(cache', key) : TRUE).value)
               ELSE NoView
    /\ out' = IF exc' = "none"
              THEN [(CHOOSE e \in Lookup(cache', key) : TRUE).value
                        EXCEPT !.df = view'.df]
              ELSE Unbound

\* the first run, when the page is opened: the sliders hold their defaults
OpenPage == runs = 0 /\ ScriptRun(min_obj, min_hole, FALSE)

MoveMinObj(a) == runs > 0 /\ a # min_obj /\ ScriptRun(a, min_hole, FALSE)

MoveMinHole(b) == runs > 0 /\ b # min_hole /\ ScriptRun(min_obj, b, FALSE)

ClickClear == runs > 0 /\ ScriptRun(min_obj, min_hole, TRUE)

Rerun == runs > 0 /\ ScriptRun(min_obj, min_hole, FALSE)

Next ==
    \/ OpenPage
    \/ \E a \in Sizes : MoveMinObj(a)
    \/ \E b \in Sizes : MoveMinHole(b)
    \/ ClickClear
    \/ Rerun

Spec == Init /\ [][Next]_vars

\* ------------------------------------------------------------- properties
Rows(df) == {df[i] : i \in 1 .. Len(df)}

\* a run has shown a result
Shown == runs > 0 /\ exc = "none"

\* the stored result for the current image and slider values
Stored == (CHOOSE e \in Lookup(cache, CacheKey(img, min_obj, min_hole)) : TRUE).value

\* some pixel of C lies in the first or last row or column of the image
TouchesBorder(image, C) ==
    \E p \in C :
        \/ p[1] = 0
        \/ p[2] = 0
        \/ << p[1] + 1, p[2] >> \notin DOMAIN image
        \/ << p[1], p[2] + 1 >> \notin DOMAIN image

\* the background components (4-neighbour) of the mask after line 51
BackgroundOf(L) == Components(DOMAIN img \ L.mask_l51, 1)

\* C1: in a run started by the cache-clear button, the call of
\* compute_pipeline is recomputed, not answered from the store (the key of
\* that run is the one the previous run used).
C1_ClearForcesRecompute == clicked => hit = "miss"

\* C2: compute_pipeline never raises: no run ends with an exception, and a
\* body execution whose cleaned mask is empty returns an all-zero label map
\* and an empty table.
C2_NeverRaises ==
    /\ exc = "none"
    /\ locals.called => locals.raised = "none"

\* C3: a background component of the mask after small-object removal that
\* touches the image border is never set to true in mask_clean.
C3_BorderBackgroundNeverFilled ==
    locals.called =>
        \A C \in BackgroundOf(locals) :
            TouchesBorder(img, C) => C \cap locals.mask_clean = {}

\* C3 (amended): a border-touching background component of the mask after
\* small-object removal is filled exactly when its pixel count is below
\* min_hole (never when min_hole = 0); otherwise none of it is filled.
C3_BorderBackgroundFilledIffSmall ==
    locals.called =>
        \A C \in BackgroundOf(locals) :
            TouchesBorder(img, C) =>
                IF Cardinality(C) < locals.min_hole
                THEN C \subseteq locals.mask_clean
                ELSE C \cap locals.mask_clean = {}

C3_Witness ==
    /\ locals.called
    /\ \E C \in BackgroundOf(locals) :
          /\ TouchesBorder(img, C)
          /\ Cardinality(C) < locals.min_hole
          /\ C \subseteq locals.mask_clean
    /\ \E C \in BackgroundOf(locals) :
          /\ TouchesBorder(img, C)
          /\ C \cap locals.mask_clean = {}

\* C4: two foreground pixels of mask_clean have the same label iff a path of
\* horizontally or vertically adjacent foreground pixels joins them.
C4_LabelsAre4Connected ==
    Shown =>
        \A p \in out.mask_clean : \A q \in out.mask_clean :
            (out.label_img[p] = out.label_img[q])
                <=> q \in ComponentOf(out.mask_clean, p, 1)

\* C4 (amended): label_img is 0 off mask_clean and positive on it, and two
\* foreground pixels have the same label iff a path of horizontally,
\* vertically or diagonally adjacent foreground pixels joins them
\* (8-connectivity): pixels touching only at a corner share a label.
C4_LabelsAre8Connected ==
    Shown =>
        /\ \A p \in DOMAIN img :
              (out.label_img[p] > 0) <=> p \in out.mask_clean
        /\ \A p \in out.mask_clean : \A q \in out.mask_clean :
              (out.label_img[p] = out.label_img[q])
                  <=> q \in ComponentOf(out.mask_clean, p, 2)

C4_Witness ==
    /\ Shown
    /\ \E p \in out.mask_clean : \E q \in out.mask_clean :
          /\ Abs(p[1] - q[1]) = 1
          /\ Abs(p[2] - q[2]) = 1
          /\ q \notin ComponentOf(out.mask_clean, p, 1)
          /\ out.label_img[p] = out.label_img[q]

\* C5: for the image and min_hole of an executed body, a larger min_obj
\* never gives a mask_clean with more foreground pixels, and a smaller one
\* never gives fewer.
C5_MonotoneInMinObj ==
    locals.called =>
        \A a \in Sizes :
            LET n == Cardinality(MaskClean(img, a, locals.min_hole))
            IN /\ a >= locals.min_obj => n <= Cardinality(locals.mask_clean)
               /\ a <= locals.min_obj => n >= Cardinality(locals.mask_clean)

C5_Witness ==
    /\ locals.called
    /\ locals.min_hole > 0
    /\ \E a \in Sizes :
          /\ a > locals.min_obj
          /\ Cardinality(MaskClean(img, a, locals.min_hole))
                < Cardinality(locals.mask_clean)

\* C6: the table of a result has exactly one row per positive label of
\* label_img, and a row's area is the number of pixels with its label.
C6_TableMatchesLabels ==
    Shown =>
        LET labels == {out.label_img[p] : p \in DOMAIN img} \ {0}
        IN /\ Cardinality(labels) = Len(out.df)
           /\ \A l \in labels :
                 Cardinality({i \in 1 .. Len(out.df) : out.df[i].label = l}) = 1
           /\ \A r \in Rows(out.df) :
                 r.area = Cardinality({p \in DOMAIN img : out.label_img[p] = r.label})

C6_Witness ==
    /\ Shown
    /\ \E r \in Rows(out.df) :
          /\ r.area >= 2
          /\ r.area < (r.bbox_r1 - r.bbox_r0) * (r.bbox_c1 - r.bbox_c0)

\* C7: with min_obj = 0 line 51 leaves the mask unchanged, with
\* min_hole = 0 line 52 leaves its input unchanged, and with both 0
\* mask_clean is the binary mask of the image.
C7_ZeroIsNoOp ==
    locals.called =>
        /\ locals.min_obj = 0 => locals.mask_l51 = locals.mask
        /\ locals.min_hole = 0 => locals.mask_clean = locals.mask_l51
        /\ locals.min_obj = 0 /\ locals.min_hole = 0
              => locals.mask_clean = BinaryMask(img)

C7_Witness ==
    /\ locals.called
    /\ locals.min_obj = 0
    /\ locals.min_hole = 0
    /\ locals.mask_clean # {}
    /\ locals.mask_clean # DOMAIN img
    /\ MaskClean(img, MaxSize, MaxSize) # locals.mask_clean

\* C8: what a run shows is what an uncached execution for the image and the
\* run's slider values produces, whether line 93 hit the store or not.
C8_ShownEqualsFresh ==
    runs > 0 =>
        LET L == Body(img, min_obj, min_hole)
        IN IF exc = "none"
           THEN /\ L.raised = "none"
                /\ out = Returned(L)
                /\ view = Render(Returned(L))
           ELSE L.raised = exc

C8_Witness ==
    /\ Shown
    /\ hit = "hit"
    /\ \E e \in cache : e.value.mask_clean # out.mask_clean

\* C9: rounding the shown table leaves out["df"] as compute_pipeline
\* returned it, and the CSV has the ten columns and the unrounded values.
C9_CsvFullPrecision ==
    Shown =>
        /\ view.shown
        /\ out.df = Stored.df
        /\ view.csv.header = ColumnNames
        /\ Len(view.csv.lines) = Len(Stored.df)
        /\ \A i \in 1 .. Len(Stored.df) :
              /\ view.csv.lines[i][7] = FloatCell(Stored.df[i].mean)
              /\ view.csv.lines[i][8] = FloatCell(Stored.df[i].median)
              /\ view.csv.lines[i][9] = FloatCell(Stored.df[i].min)
              /\ view.csv.lines[i][10] = FloatCell(Stored.df[i].max)
              /\ view.csv.lines[i][1] = IntCell(Stored.df[i].label)
              /\ view.csv.lines[i][2] = IntCell(Stored.df[i].area)
              /\ view.df_display[i].mean = Round2(Stored.df[i].mean)
              /\ view.df_display[i].median = Round2(Stored.df[i].median)

C9_Witness ==
    /\ Shown
    /\ \E i \in 1 .. Len(out.df) :
          /\ view.df_display[i].mean # out.df[i].mean
          /\ view.csv.lines[i][7] = FloatCell(out.df[i].mean)

\* C10: with min_obj > 0 every row of the table has area >= min_obj.
C10_AreaAtLeastMinObj ==
    Shown /\ min_obj > 0 => \A r \in Rows(out.df) : r.area >= min_obj

\* C10 (amended): with min_obj > 0 every row has area >= min_obj whenever
\* small-object removal leaves some foreground; when it leaves none, the
\* table has a row only if the whole image is smaller than min_hole and is
\* filled, and that single row's area is the image's pixel count.
C10_AreaAtLeastMinObjUnlessAllFilled ==
    locals.called /\ locals.raised = "none" /\ locals.min_obj > 0 =>
        IF locals.mask_l51 # {}
        THEN \A r \in Rows(locals.df) : r.area >= locals.min_obj
        ELSE /\ Len(locals.df) = 1
             /\ locals.df[1].area = Cardinality(DOMAIN img)
             /\ Cardinality(DOMAIN img) < locals.min_hole

C10_Witness ==
    /\ locals.called
    /\ locals.raised = "none"
    /\ locals.min_obj > 0
    /\ locals.mask_l51 # {}
    /\ locals.mask_clean # locals.mask_l51
    /\ \E r \in Rows(locals.df) : r.area > locals.min_obj

=============================================================================
